---- MODULE Spec2Model ----
(***************************************************************************)
(* Model of the paginated fetch of the Liferay backend                     *)
(* (perceval/backends/core/liferay.py) and of the GitHub releases backend  *)
(* (perceval/backends/core/githubreleases.py).                             *)
(*                                                                         *)
(* The two Python generators of a Liferay fetch, Liferay.fetch_items and   *)
(* LiferayClient.fetch_items, are modelled as coroutines: `ctl` says which *)
(* frame is running, `bpc` and `cpc` are the positions the frames are      *)
(* suspended at, and the other variables are the frames' locals.           *)
(***************************************************************************)
EXTENDS Integers, Sequences, FiniteSets, TLC

\* ------------------------------------------------------------------ bounds
MaxItems == 3        \* items held by the server: 0..MaxItems
MaxPageSize == 2     \* max_items (page size) of a client: 1..MaxPageSize
MaxDate == 1         \* from_date of a fetch: 0..MaxDate (0 is DEFAULT_DATETIME)
MaxFetches == 2      \* fetch invocations in one behaviour
MaxReleases == 5     \* releases held by the GitHub server: 0..MaxReleases
MaxDay == 5          \* from_date and to_date of a releases fetch: 0..MaxDay
MaxPerPage == 2      \* max_items (per_page) of the releases client

Sites == {"siteA", "siteB"}
Missing == {"none", "totalCount", "pageSize", "lastPage"}

VARIABLES
    \* the remote Liferay server
    nitems,          \* items held, item d has dateCreated d (1..nitems)
    emptyLastPage,   \* the lastPage the server reports for an empty result
    \* Liferay / LiferayClient attributes of the current fetch
    from_date, max_items, site_id, from_archive,
    archive,         \* recorded <<request, response>> entries
    arch_pos,        \* entries of the archive consumed by the replay
    netcalls,        \* network calls made by the current client
    nfetch,          \* fetch invocations so far
    rec,             \* what the fetch that recorded the archive did
    \* frame of LiferayClient.fetch_items
    cpc, page, items, has_next, nquestions, tquestions,
    \* frame of Liferay.fetch_items
    bpc, questions,
    \* the consumer
    ctl, pulls, error,
    \* history of the current invocation
    requested,       \* page numbers requested, in order
    responses,       \* responses received, in order
    yieldedPages,    \* raw pages yielded by LiferayClient.fetch_items
    delivered,       \* items yielded by Liferay.fetch_items
    reqPulls,        \* for each request, the number of the pull that made it
    reqDelivered,    \* for each request, the items delivered before it
    \* the GitHub server and the GitHubRelease fetch
    gh_n,            \* releases held, release t has created_at t (1..gh_n)
    gh_from, gh_to,  \* from_date and to_date of the fetch
    gh_per_page,     \* max_items of the client
    gh_bpc,          \* position of GitHubRelease.fetch_items
    gh_cpc,          \* position of GitHubClient.fetch_items
    gh_page,         \* page of the last request
    gh_next,         \* the last response carries a "next" link
    gh_releases,     \* releases of the current page not yet yielded
    gh_ctl,          \* the frame that runs
    gh_requested,    \* page numbers requested, in order
    gh_pages,        \* pages yielded by the client, in order
    gh_yielded,      \* releases yielded by GitHubRelease.fetch_items
    \* resuming a Liferay fetch
    modified,        \* the item edited after the last creation (0: none)
    seen,            \* items yielded by the earlier fetches of a resumed run
    d0               \* from_date of the first fetch of a resumed run

vars == <<nitems, emptyLastPage, from_date, max_items, site_id, from_archive,
          archive, arch_pos, netcalls, nfetch, rec,
          cpc, page, items, has_next, nquestions, tquestions,
          bpc, questions, ctl, pulls, error,
          requested, responses, yieldedPages, delivered, reqPulls, reqDelivered,
          gh_n, gh_from, gh_to, gh_per_page, gh_bpc, gh_cpc, gh_page, gh_next,
          gh_releases, gh_ctl, gh_requested, gh_pages, gh_yielded,
          modified, seen, d0>>

rsVars == <<modified, seen, d0>>

lfVars == <<nitems, emptyLastPage, from_date, max_items, site_id, from_archive,
            archive, arch_pos, netcalls, nfetch, rec,
            cpc, page, items, has_next, nquestions, tquestions,
            bpc, questions, ctl, pulls, error,
            requested, responses, yieldedPages, delivered, reqPulls, reqDelivered>>

ghVars == <<gh_n, gh_from, gh_to, gh_per_page, gh_bpc, gh_cpc, gh_page, gh_next,
            gh_releases, gh_ctl, gh_requested, gh_pages, gh_yielded>>

serverVars == <<nitems, emptyLastPage>>
configVars == <<from_date, max_items, site_id, from_archive, nfetch, rec>>
clientLocals == <<page, items, has_next, nquestions, tquestions>>
history == <<requested, responses, yieldedPages, reqPulls, reqDelivered>>

\* ------------------------------------------------------------ pure helpers
Ceil(n, p) == (n + p - 1) \div p

Min(a, b) == IF a <= b THEN a ELSE b

NoResp == [items |-> <<>>, page |-> 0, pageSize |-> 0, lastPage |-> 0,
           totalCount |-> 0, missing |-> "none"]

NoRec == [from_date |-> 0, max_items |-> 0, site_id |-> "", pages |-> <<>>,
          outcome |-> "none"]

\* The query with the from_date left out of the filter.
QueryNoDate(f, p, m, s) == [filter |-> 0, page |-> p, pageSize |-> m, siteKey |-> s]

\* POSTS_QUERY_TEMPLATE % (from_date.isoformat(), page, self.max_items, self.site_id)
Query(f, p, m, s) == [filter |-> f, page |-> p, pageSize |-> m, siteKey |-> s]

\* messageBoardThreads(filter: "dateCreated gt f", page, pageSize,
\* sort: "dateCreated:desc"): the items newer than f, newest first, cut in pages.
Matching(q, n) == IF n > q.filter THEN n - q.filter ELSE 0

ServerLastPage(q, n, e) ==
    IF Matching(q, n) = 0 THEN e ELSE Ceil(Matching(q, n), q.pageSize)

ServerItems(q, n) ==
    LET first == (q.page - 1) * q.pageSize + 1
        last == Min(q.page * q.pageSize, Matching(q, n))
    IN  IF first > last THEN <<>>
        ELSE [i \in 1..(last - first + 1) |-> n - (first + i - 1) + 1]

ServerResponse(q, n, e, miss) ==
    [items |-> ServerItems(q, n), page |-> q.page, pageSize |-> q.pageSize,
     lastPage |-> ServerLastPage(q, n, e), totalCount |-> Matching(q, n),
     missing |-> miss]

\* Liferay.parse_questions
parse_questions(raw_page) == raw_page.items

\* ------------------------------------------------------- HttpClient.fetch
\* The outcomes of self.fetch(self.graphql_url, payload=query, method=POST).
\* Live: the request goes to the network; a successful response is appended
\* to the archive before it is returned; the retry policy and the rate governor
\* may give up instead.  Replay: the next recorded entry is returned when its
\* request descriptor matches, and anything else is an ArchiveError.
LiveOutcomes(q) ==
    { [kind |-> "ok", resp |-> r,
       archive |-> Append(archive, [req |-> q, resp |-> r]),
       arch_pos |-> arch_pos, netcalls |-> netcalls + 1]
        : r \in { ServerResponse(q, nitems, emptyLastPage, m) : m \in Missing } }
    \cup
    { [kind |-> "RetryError", resp |-> NoResp, archive |-> archive,
       arch_pos |-> arch_pos, netcalls |-> netcalls + 1],
      [kind |-> "RateLimitError", resp |-> NoResp, archive |-> archive,
       arch_pos |-> arch_pos, netcalls |-> netcalls] }

ReplayOutcomes(q) ==
    IF arch_pos < Len(archive) /\ archive[arch_pos + 1].req = q
    THEN { [kind |-> "ok", resp |-> archive[arch_pos + 1].resp,
            archive |-> archive, arch_pos |-> arch_pos + 1,
            netcalls |-> netcalls] }
    ELSE { [kind |-> "ArchiveError", resp |-> NoResp, archive |-> archive,
            arch_pos |-> arch_pos, netcalls |-> netcalls] }

HttpFetch(q) == IF from_archive THEN ReplayOutcomes(q) ELSE LiveOutcomes(q)

\* ------------------------------------------------------------------- Init
GhIdle ==
    /\ gh_from = 0 /\ gh_to = 0 /\ gh_per_page = 1
    /\ gh_bpc = "none" /\ gh_cpc = "none" /\ gh_page = 0 /\ gh_next = FALSE
    /\ gh_releases = <<>> /\ gh_ctl = "consumer"
    /\ gh_requested = <<>> /\ gh_pages = <<>> /\ gh_yielded = <<>>

RsIdle == modified = 0 /\ seen = {} /\ d0 = 0

LfIdle ==
    /\ from_date = 0 /\ max_items = 1 /\ site_id = "siteA"
    /\ from_archive = FALSE
    /\ archive = <<>> /\ arch_pos = 0 /\ netcalls = 0 /\ nfetch = 0
    /\ rec = NoRec
    /\ cpc = "none" /\ page = 0 /\ items = NoResp /\ has_next = FALSE
    /\ nquestions = 0 /\ tquestions = 0
    /\ bpc = "none" /\ questions = <<>>
    /\ ctl = "consumer" /\ pulls = 0 /\ error = "none"
    /\ requested = <<>> /\ responses = <<>> /\ yieldedPages = <<>>
    /\ delivered = <<>> /\ reqPulls = <<>> /\ reqDelivered = <<>>

Init ==
    /\ nitems \in 0..MaxItems
    /\ emptyLastPage \in {0, 1}
    /\ LfIdle
    /\ gh_n = 0
    /\ GhIdle
    /\ RsIdle

\* --------------------------------------------------------------- Liferay.fetch
\* The token request made whatever the mode.
TokenCallsAlways(fa) == 1

\* if not self.from_archive: self._extract_access_token(...) (one requests.post)
TokenCalls(fa) == IF fa THEN 0 ELSE 1

\* Liferay.fetch -> Backend.fetch / fetch_from_archive -> _init_client ->
\* LiferayClient.__init__: a new client and a new (unstarted) item generator.
\* A live fetch records into a new archive; a replay reads the archive the
\* last live fetch recorded.  The access token is requested only when live.
Fetch(f, m, s, fa) ==
    /\ bpc = "none"
    /\ nfetch < MaxFetches
    /\ fa => nfetch > 0
    /\ nfetch' = nfetch + 1
    /\ from_date' = f /\ max_items' = m /\ site_id' = s /\ from_archive' = fa
    /\ archive' = IF fa THEN archive ELSE <<>>
    /\ arch_pos' = 0
    /\ netcalls' = TokenCalls(fa)
    /\ bpc' = "unstarted"
    /\ UNCHANGED <<serverVars, rec, cpc, clientLocals, questions, ctl, pulls,
                   error, history, delivered>>

StartFetch ==
    \E f \in 0..MaxDate, m \in 1..MaxPageSize, s \in Sites, fa \in BOOLEAN :
        Fetch(f, m, s, fa)

\* ------------------------------------------------------------ the consumer
\* next() on the generator Liferay.fetch returned.
ConsumerPull ==
    /\ ctl = "consumer"
    /\ bpc \in {"unstarted", "running"}
    /\ ctl' = "backend"
    /\ pulls' = pulls + 1
    /\ UNCHANGED <<serverVars, configVars, archive, arch_pos, netcalls, cpc,
                   clientLocals, bpc, questions, error, history, delivered>>

\* How the invocation the consumer lets go of ended.
Outcome ==
    CASE bpc = "done" -> "done"
      [] bpc = "failed" -> "failed"
      [] OTHER -> "abandoned"

\* The consumer lets go of the generator (exhausted, failed, or abandoned
\* between two pulls): both frames, the cursor and the client are discarded.
\* The archive a live fetch recorded outlives them.
ConsumerClose ==
    /\ ctl = "consumer"
    /\ bpc # "none"
    /\ rec' = IF from_archive THEN rec
              ELSE [from_date |-> from_date, max_items |-> max_items,
                    site_id |-> site_id, pages |-> yieldedPages,
                    outcome |-> Outcome]
    /\ from_date' = 0 /\ max_items' = 1 /\ site_id' = "siteA"
    /\ from_archive' = FALSE
    /\ arch_pos' = 0 /\ netcalls' = 0
    /\ cpc' = "none" /\ page' = 0 /\ items' = NoResp /\ has_next' = FALSE
    /\ nquestions' = 0 /\ tquestions' = 0
    /\ bpc' = "none" /\ questions' = <<>>
    /\ pulls' = 0 /\ error' = "none"
    /\ requested' = <<>> /\ responses' = <<>> /\ yieldedPages' = <<>>
    /\ delivered' = <<>> /\ reqPulls' = <<>> /\ reqDelivered' = <<>>
    /\ UNCHANGED <<serverVars, nfetch, archive, ctl>>

\* ---------------------------------------------------- Liferay.fetch_items
\* First resumption: get_questions creates the page generator (nothing of it
\* runs yet) and the outer for loop asks it for the first page.
BackendStart ==
    /\ ctl = "backend"
    /\ bpc = "unstarted"
    /\ bpc' = "running"
    /\ cpc' = "created"
    /\ ctl' = "client"
    /\ UNCHANGED <<serverVars, configVars, archive, arch_pos, netcalls,
                   clientLocals, questions, pulls, error, history, delivered>>

\* for question in questions: yield question
BackendYield ==
    /\ ctl = "backend"
    /\ bpc = "running"
    /\ questions # <<>>
    /\ delivered' = Append(delivered, Head(questions))
    /\ questions' = Tail(questions)
    /\ ctl' = "consumer"
    /\ UNCHANGED <<serverVars, configVars, archive, arch_pos, netcalls, cpc,
                   clientLocals, bpc, pulls, error, history>>

\* The next page is asked for although questions of the page are left.
BackendNextPageEarly ==
    /\ ctl = "backend"
    /\ bpc = "running"
    /\ ctl' = "client"
    /\ UNCHANGED <<serverVars, configVars, archive, arch_pos, netcalls, cpc,
                   clientLocals, bpc, questions, pulls, error, history,
                   delivered>>

\* The questions of the page are exhausted: the outer for loop asks the page
\* generator for the next page.
BackendNextPage ==
    /\ ctl = "backend"
    /\ bpc = "running"
    /\ questions = <<>>
    /\ ctl' = "client"
    /\ UNCHANGED <<serverVars, configVars, archive, arch_pos, netcalls, cpc,
                   clientLocals, bpc, questions, pulls, error, history,
                   delivered>>

\* ----------------------------------------------- LiferayClient.fetch_items
\* The request the frame issues for page p, and what the fetch leaves behind.
Issue(p, o) ==
    /\ requested' = Append(requested, p)
    /\ reqPulls' = Append(reqPulls, pulls)
    /\ reqDelivered' = Append(reqDelivered, Len(delivered))
    /\ responses' = IF o.kind = "ok" THEN Append(responses, o.resp) ELSE responses
    /\ archive' = o.archive
    /\ arch_pos' = o.arch_pos
    /\ netcalls' = o.netcalls

\* An exception leaves the page generator, passes through Liferay.fetch_items
\* (which catches nothing) and reaches the consumer's pull.
Raise(kind) ==
    /\ cpc' = "failed" /\ bpc' = "failed" /\ error' = kind
    /\ ctl' = "consumer"
    /\ UNCHANGED <<questions, yieldedPages>>

\* yield items: the page goes to the for loop of Liferay.fetch_items.
YieldPage(raw) ==
    /\ cpc' = "suspended" /\ ctl' = "backend"
    /\ yieldedPages' = Append(yieldedPages, raw)
    /\ questions' = parse_questions(raw)
    /\ UNCHANGED <<bpc, error>>

\* The while loop ends: StopIteration ends the for loop of
\* Liferay.fetch_items, whose own StopIteration reaches the consumer.
Return ==
    /\ cpc' = "done" /\ bpc' = "done" /\ ctl' = "consumer"
    /\ UNCHANGED <<questions, yieldedPages, error>>

\* The field of data['data']['entries'] the code reads is absent.
Lacks(resp, field) == resp.missing = field

\* Lines 344-358: page = 1, the first request, the counters, the first yield.
ClientFirst ==
    /\ ctl = "client"
    /\ cpc = "created"
    /\ page' = 1
    /\ \E o \in HttpFetch(Query(from_date, 1, max_items, site_id)) :
        /\ Issue(1, o)
        /\ IF o.kind # "ok"
           THEN /\ Raise(o.kind)
                /\ UNCHANGED <<items, has_next, nquestions, tquestions>>
           ELSE /\ items' = o.resp
                /\ IF Lacks(o.resp, "totalCount") \/ Lacks(o.resp, "pageSize")
                   THEN /\ Raise("KeyError")
                        /\ UNCHANGED <<has_next, nquestions, tquestions>>
                   ELSE /\ tquestions' = o.resp.totalCount
                        /\ nquestions' = o.resp.pageSize
                        /\ has_next' = TRUE
                        /\ YieldPage(o.resp)
    /\ UNCHANGED <<serverVars, configVars, pulls, delivered>>

\* The lastPage test left out: has_next stays True.
HasNextAlways(p, lastPage) == TRUE

\* if page >= data['data']['entries']['lastPage']: has_next = False
HasNext(p, lastPage) == ~(p >= lastPage)

\* page += 1
NextPageStuck(p) == p

NextPage(p) == p + 1

\* Lines 359-371 and the loop test: page += 1, the next request, the counter,
\* the lastPage test, and then either the next yield or the end of the loop.
ClientResume ==
    /\ ctl = "client"
    /\ cpc = "suspended"
    /\ page' = NextPage(page)
    /\ \E o \in HttpFetch(Query(from_date, page', max_items, site_id)) :
        /\ Issue(page', o)
        /\ IF o.kind # "ok"
           THEN /\ Raise(o.kind)
                /\ UNCHANGED <<items, has_next, nquestions>>
           ELSE /\ items' = o.resp
                /\ IF Lacks(o.resp, "pageSize") \/ Lacks(o.resp, "lastPage")
                   THEN /\ Raise("KeyError")
                        /\ nquestions' = IF Lacks(o.resp, "pageSize")
                                         THEN nquestions
                                         ELSE nquestions + o.resp.pageSize
                        /\ UNCHANGED has_next
                   ELSE /\ nquestions' = nquestions + o.resp.pageSize
                        /\ has_next' = HasNext(page', o.resp.lastPage)
                        /\ IF has_next' THEN YieldPage(o.resp) ELSE Return
    /\ UNCHANGED <<serverVars, configVars, tquestions, pulls, delivered>>

\* ============================================== GitHub releases backend
\* The GitHub server: releases in ascending timestamp order, the ones at or
\* after `since`, cut in pages of per_page; a response has a "next" link while
\* pages are left.
GhFirst(since) == IF since >= 1 THEN since ELSE 1

GhCount(since, n) == IF n >= GhFirst(since) THEN n - GhFirst(since) + 1 ELSE 0

GhServerPage(since, p, per, n) ==
    LET first == (p - 1) * per + 1
        last == Min(p * per, GhCount(since, n))
    IN  IF first > last THEN <<>>
        ELSE [i \in 1..(last - first + 1) |-> GhFirst(since) + first + i - 2]

GhNextLink(since, p, per, n) == p * per < GhCount(since, n)

\* GitHubReleaseClient.get_releases: the payload carries per_page, the
\* ascending direction and since = from_date; to_date is no part of it.
ReleasesPayload(f, per) == [per_page |-> per, direction |-> "asc", since |-> f]

\* GitHubRelease.fetch: from_date and to_date become the kwargs of fetch_items.
GhFetch(f, t, m) ==
    /\ gh_bpc = "none"
    /\ gh_from' = f /\ gh_to' = t /\ gh_per_page' = m
    /\ gh_bpc' = "unstarted"
    /\ UNCHANGED <<gh_n, gh_cpc, gh_page, gh_next, gh_releases, gh_ctl,
                   gh_requested, gh_pages, gh_yielded>>

GhStartFetch ==
    \E f \in 0..MaxDay, t \in 0..MaxDay, m \in 1..MaxPerPage : GhFetch(f, t, m)

\* next() on the generator GitHubRelease.fetch returned.
GhPull ==
    /\ gh_ctl = "consumer"
    /\ gh_bpc \in {"unstarted", "running"}
    /\ gh_ctl' = "backend"
    /\ UNCHANGED <<gh_n, gh_from, gh_to, gh_per_page, gh_bpc, gh_cpc, gh_page,
                   gh_next, gh_releases, gh_requested, gh_pages, gh_yielded>>

\* GitHubRelease.fetch_items, first resumption: only from_date is read from
\* the kwargs; get_releases creates the page generator, the for loop asks it
\* for the first page.
GhBackendStart ==
    /\ gh_ctl = "backend"
    /\ gh_bpc = "unstarted"
    /\ gh_bpc' = "running"
    /\ gh_cpc' = "created"
    /\ gh_ctl' = "client"
    /\ UNCHANGED <<gh_n, gh_from, gh_to, gh_per_page, gh_page, gh_next,
                   gh_releases, gh_requested, gh_pages, gh_yielded>>

\* for release in releases: yield release (every release of the page).
GhBackendYield ==
    /\ gh_ctl = "backend"
    /\ gh_bpc = "running"
    /\ gh_releases # <<>>
    /\ gh_yielded' = Append(gh_yielded, Head(gh_releases))
    /\ gh_releases' = Tail(gh_releases)
    /\ gh_ctl' = "consumer"
    /\ UNCHANGED <<gh_n, gh_from, gh_to, gh_per_page, gh_bpc, gh_cpc, gh_page,
                   gh_next, gh_requested, gh_pages>>

\* The releases of the page are exhausted: the for loop asks for the next page.
GhBackendNextPage ==
    /\ gh_ctl = "backend"
    /\ gh_bpc = "running"
    /\ gh_releases = <<>>
    /\ gh_ctl' = "client"
    /\ UNCHANGED <<gh_n, gh_from, gh_to, gh_per_page, gh_bpc, gh_cpc, gh_page,
                   gh_next, gh_releases, gh_requested, gh_pages, gh_yielded>>

\* GitHubClient.fetch_items, the link-based paginator: the first request; an
\* empty first page ends the sequence, any other page is yielded.
GhClientFirst ==
    /\ gh_ctl = "client"
    /\ gh_cpc = "created"
    /\ LET pl == ReleasesPayload(gh_from, gh_per_page)
           raw == GhServerPage(pl.since, 1, pl.per_page, gh_n)
       IN  /\ gh_page' = 1
           /\ gh_requested' = Append(gh_requested, 1)
           /\ gh_next' = GhNextLink(pl.since, 1, pl.per_page, gh_n)
           /\ IF raw = <<>>
              THEN /\ gh_cpc' = "done" /\ gh_bpc' = "done"
                   /\ gh_ctl' = "consumer"
                   /\ UNCHANGED <<gh_pages, gh_releases>>
              ELSE /\ gh_cpc' = "suspended" /\ gh_ctl' = "backend"
                   /\ gh_pages' = Append(gh_pages, raw)
                   /\ gh_releases' = raw
                   /\ UNCHANGED gh_bpc
    /\ UNCHANGED <<gh_n, gh_from, gh_to, gh_per_page, gh_yielded>>

\* GitHubClient.fetch_items resumed: follow the "next" link when the last
\* response has one, else the sequence ends.
GhClientResume ==
    /\ gh_ctl = "client"
    /\ gh_cpc = "suspended"
    /\ IF gh_next
       THEN LET pl == ReleasesPayload(gh_from, gh_per_page)
                raw == GhServerPage(pl.since, gh_page + 1, pl.per_page, gh_n)
            IN  /\ gh_page' = gh_page + 1
                /\ gh_requested' = Append(gh_requested, gh_page + 1)
                /\ gh_next' = GhNextLink(pl.since, gh_page + 1, pl.per_page, gh_n)
                /\ gh_cpc' = "suspended" /\ gh_ctl' = "backend"
                /\ gh_pages' = Append(gh_pages, raw)
                /\ gh_releases' = raw
                /\ UNCHANGED gh_bpc
       ELSE /\ gh_cpc' = "done" /\ gh_bpc' = "done" /\ gh_ctl' = "consumer"
            /\ UNCHANGED <<gh_page, gh_requested, gh_next, gh_pages, gh_releases>>
    /\ UNCHANGED <<gh_n, gh_from, gh_to, gh_per_page, gh_yielded>>

GhInit ==
    /\ nitems = 0
    /\ emptyLastPage = 0
    /\ LfIdle
    /\ gh_n \in 0..MaxReleases
    /\ GhIdle
    /\ RsIdle

GhNext ==
    \/ GhStartFetch /\ UNCHANGED <<lfVars, rsVars>>
    \/ GhPull /\ UNCHANGED <<lfVars, rsVars>>
    \/ GhBackendStart /\ UNCHANGED <<lfVars, rsVars>>
    \/ GhBackendYield /\ UNCHANGED <<lfVars, rsVars>>
    \/ GhBackendNextPage /\ UNCHANGED <<lfVars, rsVars>>
    \/ GhClientFirst /\ UNCHANGED <<lfVars, rsVars>>
    \/ GhClientResume /\ UNCHANGED <<lfVars, rsVars>>

SpecGH == GhInit /\ [][GhNext]_vars

\* ------------------------------------------------------------------- Spec
Next ==
    \/ StartFetch /\ UNCHANGED <<ghVars, rsVars>>
    \/ ConsumerPull /\ UNCHANGED <<ghVars, rsVars>>
    \/ ConsumerClose /\ UNCHANGED <<ghVars, rsVars>>
    \/ BackendStart /\ UNCHANGED <<ghVars, rsVars>>
    \/ BackendYield /\ UNCHANGED <<ghVars, rsVars>>
    \/ BackendNextPage /\ UNCHANGED <<ghVars, rsVars>>
    \/ ClientFirst /\ UNCHANGED <<ghVars, rsVars>>
    \/ ClientResume /\ UNCHANGED <<ghVars, rsVars>>

Spec == Init /\ [][Next]_vars

\* ---------------------------------------------------------------- SpecLive
\* Live fetches against a server whose responses all succeed and are
\* well-formed, drained by a consumer that keeps pulling: next() is
\* synchronous, so a pull that is possible is made and a frame that has the
\* control runs (weak fairness of Drain); the generator is let go of only
\* once it is exhausted.
Succeeds ==
    /\ error' = "none"
    /\ \A i \in 1..Len(responses') : responses'[i].missing = "none"

Drain ==
    \/ ConsumerPull
    \/ BackendStart
    \/ BackendYield
    \/ BackendNextPage
    \/ ClientFirst /\ Succeeds
    \/ ClientResume /\ Succeeds

LiveNext ==
    \/ StartFetch /\ ~from_archive' /\ UNCHANGED <<ghVars, rsVars>>
    \/ ConsumerPull /\ UNCHANGED <<ghVars, rsVars>>
    \/ ConsumerClose /\ bpc = "done" /\ UNCHANGED <<ghVars, rsVars>>
    \/ BackendStart /\ UNCHANGED <<ghVars, rsVars>>
    \/ BackendYield /\ UNCHANGED <<ghVars, rsVars>>
    \/ BackendNextPage /\ UNCHANGED <<ghVars, rsVars>>
    \/ ClientFirst /\ Succeeds /\ UNCHANGED <<ghVars, rsVars>>
    \/ ClientResume /\ Succeeds /\ UNCHANGED <<ghVars, rsVars>>

SpecLive == Init /\ [][LiveNext]_vars /\ WF_vars(Drain /\ UNCHANGED <<ghVars, rsVars>>)

\* -------------------------------------------------------------- SpecResume
\* Liferay.metadata_updated_on: the timestamp of the item's dateModified,
\* which is its dateCreated unless the item was edited later.
metadata_updated_on(item) == IF item = modified THEN nitems + 1 ELSE item

Range(f) == { f[i] : i \in 1..Len(f) }

MaxOf(S) == CHOOSE x \in S : \A y \in S : y <= x

\* The first fetch of a run that will be resumed: a live fetch from d0.
FirstFetch ==
    /\ nfetch = 0
    /\ \E f \in 0..MaxDate, m \in 1..MaxPageSize, s \in Sites :
        /\ Fetch(f, m, s, FALSE)
        /\ d0' = f
    /\ UNCHANGED <<modified, seen>>

\* has_resuming: the fetch is let go of after it yielded some items (between
\* two pulls, exhausted or failed) and a new live fetch of the same site is
\* started from the greatest metadata_updated_on of the items yielded so far.
Resume ==
    /\ ctl = "consumer"
    /\ bpc \in {"running", "done", "failed"}
    /\ nfetch >= 1 /\ nfetch < MaxFetches
    /\ delivered # <<>>
    /\ seen' = seen \cup Range(delivered)
    /\ from_date' = MaxOf({ metadata_updated_on(it) : it \in seen' })
    /\ nfetch' = nfetch + 1
    /\ archive' = <<>> /\ arch_pos' = 0 /\ netcalls' = TokenCalls(FALSE)
    /\ cpc' = "none" /\ page' = 0 /\ items' = NoResp /\ has_next' = FALSE
    /\ nquestions' = 0 /\ tquestions' = 0
    /\ bpc' = "unstarted" /\ questions' = <<>>
    /\ pulls' = 0 /\ error' = "none"
    /\ requested' = <<>> /\ responses' = <<>> /\ yieldedPages' = <<>>
    /\ delivered' = <<>> /\ reqPulls' = <<>> /\ reqDelivered' = <<>>
    /\ UNCHANGED <<serverVars, max_items, site_id, from_archive, rec, ctl,
                   modified, d0>>

ResumeInit ==
    /\ nitems \in 0..MaxItems
    /\ emptyLastPage \in {0, 1}
    /\ LfIdle
    /\ gh_n = 0
    /\ GhIdle
    /\ modified \in 0..nitems
    /\ seen = {} /\ d0 = 0

ResumeNext ==
    \/ FirstFetch /\ UNCHANGED ghVars
    \/ Resume /\ UNCHANGED ghVars
    \/ ConsumerPull /\ UNCHANGED <<ghVars, rsVars>>
    \/ BackendStart /\ UNCHANGED <<ghVars, rsVars>>
    \/ BackendYield /\ UNCHANGED <<ghVars, rsVars>>
    \/ BackendNextPage /\ UNCHANGED <<ghVars, rsVars>>
    \/ ClientFirst /\ UNCHANGED <<ghVars, rsVars>>
    \/ ClientResume /\ UNCHANGED <<ghVars, rsVars>>

SpecResume == ResumeInit /\ [][ResumeNext]_vars

\* ================================================================ claims
\* The number of items in the first k pages of a sequence of raw pages.
RECURSIVE ItemsIn(_, _)
ItemsIn(pages, k) ==
    IF k = 0 THEN 0 ELSE ItemsIn(pages, k - 1) + Len(parse_questions(pages[k]))

\* The items of the first k pages, in order.
RECURSIVE Flatten(_, _)
Flatten(pages, k) ==
    IF k = 0 THEN <<>> ELSE Flatten(pages, k - 1) \o parse_questions(pages[k])

Terminated == bpc \in {"done", "failed"}

\* C1: a live fetch drained to exhaustion against a server that holds N >= 1
\* matching items and serves them in pages of P issues exactly ceil(N/P) page
\* requests.
C1_CeilRequests ==
    (bpc = "done" /\ ~from_archive /\ tquestions >= 1)
        => Len(requested) = Ceil(tquestions, max_items)

\* C5: once the response for page p declares a lastPage with p >= lastPage, no
\* further request is issued (no page beyond the reported lastPage is requested).
C5_StopAtLastPage ==
    \A i \in 1..Len(responses) :
        (responses[i].missing = "none" /\ responses[i].page >= responses[i].lastPage)
            => Len(requested) <= i

\* C6: when the first response reports totalCount = 0 with no items, the fetch
\* ends after that single request, yields no page and raises no error.
C6_EmptyFirstPage ==
    (Terminated /\ Len(responses) >= 1 /\ responses[1].missing = "none"
        /\ responses[1].totalCount = 0 /\ responses[1].items = <<>>)
        => (Len(requested) = 1 /\ yieldedPages = <<>> /\ error = "none")

\* C7: every request is made inside a pull of the consumer (none before the
\* first pull), and the request for page k+1 is made only after every item of
\* pages 1..k was delivered and the consumer pulled once more.
C7_Lazy ==
    \A i \in 1..Len(requested) :
        /\ reqPulls[i] >= 1
        /\ Len(yieldedPages) >= i - 1
        /\ reqDelivered[i] = ItemsIn(yieldedPages, i - 1)
        /\ reqPulls[i] = reqDelivered[i] + 1

C7_Witness ==
    /\ Len(requested) >= 3
    /\ reqDelivered[3] >= 2
    /\ ctl = "consumer"

\* C8: a failed request or a response lacking totalCount, pageSize or lastPage
\* raises to the consumer at the pull that made the request, after the items of
\* all earlier pages were delivered once, and nothing follows the error.
C8_NotSwallowed ==
    \A i \in 1..Len(responses) :
        responses[i].missing # "none"
            => (bpc = "failed" /\ error = "KeyError" /\ Len(requested) = i)

C8_PartialResults ==
    bpc = "failed"
        => /\ error # "none"
           /\ ctl = "consumer"
           /\ delivered = Flatten(yieldedPages, Len(requested) - 1)
           /\ pulls = Len(delivered) + 1

C8_ErrorPropagation == C8_NotSwallowed /\ C8_PartialResults

\* C10: within one invocation the page numbers requested are 1, 2, 3, ... in
\* this order, and every invocation starts again at page 1.
C10_Cursor ==
    /\ \A i \in 1..Len(requested) : requested[i] = i
    /\ cpc = "suspended" => page = Len(requested)

C10_Witness ==
    /\ nfetch = 2
    /\ Len(requested) >= 3

\* The replay asks what the fetch that recorded the archive asked.
SameQuery ==
    /\ rec.from_date = from_date
    /\ rec.max_items = max_items
    /\ rec.site_id = site_id

IsPrefix(a, b) == Len(a) <= Len(b) /\ \A i \in 1..Len(a) : a[i] = b[i]

\* C4: a replay, with the same parameters, of the archive a drained live fetch
\* recorded makes no network call (none at construction either), consumes the
\* recorded entries in recorded order and yields the pages the live fetch
\* yielded, in the same order.
C4_RoundTrip ==
    (from_archive /\ SameQuery /\ rec.outcome \in {"done", "failed"})
        => /\ netcalls = 0
           /\ arch_pos = Len(responses)
           /\ \A i \in 1..arch_pos :
                /\ responses[i] = archive[i].resp
                /\ archive[i].req.page = requested[i]
           /\ IsPrefix(yieldedPages, rec.pages)
           /\ Terminated => (yieldedPages = rec.pages /\ arch_pos = Len(archive))

C4_Witness ==
    /\ from_archive /\ SameQuery /\ rec.outcome = "done"
    /\ bpc = "done"
    /\ Len(yieldedPages) >= 2
    /\ Len(delivered) >= 2

\* C9: a replay against an archive recorded for another query (from_date, page
\* size or site) ends in an ArchiveError at its first request and yields no
\* page; a replay that asks for more entries than the archive holds ends in an
\* ArchiveError at that request; no yielded page was recorded for another query.
C9_Drift ==
    from_archive
        => /\ ~SameQuery
                => /\ yieldedPages = <<>>
                   /\ requested # <<>>
                        => (requested = <<1>> /\ bpc = "failed"
                            /\ error = "ArchiveError")
           /\ \A i \in 1..Len(requested) :
                i > Len(archive)
                    => (Len(requested) = i /\ Len(yieldedPages) < i
                        /\ bpc = "failed" /\ error = "ArchiveError")
           /\ \A i \in 1..Len(yieldedPages) :
                /\ archive[i].req = Query(from_date, i, max_items, site_id)
                /\ archive[i].resp = yieldedPages[i]

C9_Witness ==
    /\ from_archive /\ ~SameQuery
    /\ Len(archive) >= 2
    /\ rec.outcome = "done"
    /\ error = "ArchiveError"

\* C2: with from_date <= to_date, a server that returns the releases in
\* ascending order and honours since, every release the fetch yields has a
\* timestamp t with from_date <= t <= to_date.
C2_InWindow ==
    gh_from <= gh_to
        => \A i \in 1..Len(gh_yielded) :
              gh_from <= gh_yielded[i] /\ gh_yielded[i] <= gh_to

\* C3: when page k holds a release later than to_date, no page after k is
\* requested; with page size 2, five releases of day 1..5 and to_date = day 4,
\* two pages are fetched.
C3_Truncation ==
    \A k \in 1..Len(gh_pages) :
        (\E j \in 1..Len(gh_pages[k]) : gh_pages[k][j] > gh_to)
            => Len(gh_requested) <= k

C3_Scenario ==
    (gh_n = 5 /\ gh_per_page = 2 /\ gh_from = 0 /\ gh_to = 4 /\ gh_bpc = "done")
        => Len(gh_requested) = 2

C3_StopInPage == C3_Truncation /\ C3_Scenario

\* C11: against a server whose responses all succeed and report a finite
\* lastPage, with a consumer that keeps pulling, every fetch reaches the
\* exhausted state after at most max(2, lastPage) requests, and once exhausted
\* it yields no page and issues no request.
C11_Bounded ==
    \A i \in 1..Len(responses) :
        Len(requested) <= IF responses[i].lastPage >= 2
                          THEN responses[i].lastPage ELSE 2

C11_Terminal ==
    [][bpc = "done"
        => \/ bpc' = "done" /\ UNCHANGED <<requested, yieldedPages, delivered>>
           \/ bpc' = "none"]_vars

C11_Finite ==
    /\ (bpc = "unstarted") ~> (bpc = "done")
    /\ []C11_Bounded
    /\ C11_Terminal

C11_Witness ==
    /\ bpc = "done"
    /\ nfetch = 2
    /\ Len(requested) >= 3
    /\ responses[1].lastPage = 3

\* C12: a live fetch of N >= 1 items drained to exhaustion without error
\* yields, in order and once each, the responses received for pages
\* 1..lastPage, and the items yielded are as many as the server's totalCount.
C12_NoPageLost ==
    (bpc = "done" /\ ~from_archive /\ tquestions >= 1
        /\ \A i \in 1..Len(responses) : responses[i].missing = "none")
        => /\ Len(responses) >= responses[1].lastPage
           /\ yieldedPages = SubSeq(responses, 1, responses[1].lastPage)
           /\ Len(delivered) = tquestions

\* C13: when a fetch from d0 is let go of after it yielded some items and a
\* second fetch is started from the greatest metadata_updated_on of the items
\* yielded, and the second fetch is drained, every item the server holds that
\* is later than d0 was yielded by one of the fetches.
C13_ResumeCoverage ==
    (nfetch >= 2 /\ bpc = "done")
        => \A it \in 1..nitems :
              it > d0 => it \in seen \cup Range(delivered)

====
